---- MODULE Spec2Model ----
(***************************************************************************)
(* The eligibility-gated election of voting-workshops-2023/advanced:       *)
(*  - the "voting" smart contract (smart-contract/src/lib.rs): init, vote  *)
(*    and view over the contract State;                                    *)
(*  - the verifier service (verifier/src/handlers.rs, types.rs): the       *)
(*    worker that checks a proof request and signs (address, country).     *)
(* Bytes are natural numbers, strings are sequences of bytes, an Ed25519   *)
(* signature is the symbolic term [sk, msg, flip]: the output of signing   *)
(* msg with secret key sk, with bit number flip inverted (0: untouched).   *)
(***************************************************************************)
EXTENDS Integers, Sequences, FiniteSets, TLC

VARIABLES
    description,          \* State.description
    verifier_public_key,  \* State.verifier_public_key
    ballots,              \* State.ballots: the entries <<account, vote index>> of the BTreeMap
    end_time,             \* State.end_time
    options,              \* State.options
    slot_time,            \* the host clock, ctx.metadata().slot_time()
    attestations,         \* the signatures the verifier has returned so far
    pending,              \* per request slot, the proof request awaiting the node's answer
    ev                    \* the last operation, with its inputs and what it returned

contractState == <<description, verifier_public_key, ballots, end_time, options>>
vars == <<description, verifier_public_key, ballots, end_time, options,
          slot_time, attestations, pending, ev>>

(***************************************************************************)
(* Bounds of the model.                                                    *)
(***************************************************************************)
MaxTime == 2       \* the host clock runs over 1..MaxTime
MaxFlip == 1       \* the bits of a signature a voter may invert: 1..MaxFlip

(***************************************************************************)
(* Values.                                                                 *)
(***************************************************************************)
AddressLen == 32
ACC_0 == [i \in 1..AddressLen |-> 0]
ACC_1 == [i \in 1..AddressLen |-> 1]
Accounts == {ACC_0, ACC_1}

\* "DK", "DE", "IT", "IN" and a three letter code, as bytes
CC_DK == <<68, 75>>
CC_DE == <<68, 69>>
CC_IT == <<73, 84>>
CC_IN == <<73, 78>>
CC_DEU == <<68, 69, 85>>

\* Address::Account(acc) and Address::Contract(_)
AccountSender(acc) == [kind |-> "Account", acc |-> acc]
ContractSender == [kind |-> "Contract", acc |-> <<>>]
Senders == {AccountSender(a) : a \in Accounts} \cup {ContractSender}

\* The verifier's key pair and a key pair that is not the verifier's.
PublicOf(sk) == IF sk = "sk_verifier" THEN "pk_verifier"
                ELSE IF sk = "sk_other" THEN "pk_other" ELSE "pk_none"
SecretKeys == {"sk_verifier", "sk_other"}
signing_keypair == [secret |-> "sk_verifier", public |-> PublicOf("sk_verifier")]

(***************************************************************************)
(* Ed25519, symbolically.                                                  *)
(***************************************************************************)
Sign(sk, message) == [sk |-> sk, msg |-> message, flip |-> 0]
FlipBit(sig, n) == [sig EXCEPT !.flip = IF sig.flip = n THEN 0 ELSE n]
NoSignature == [sk |-> "none", msg |-> <<>>, flip |-> 0]

verify_ed25519_signature_ignoring_bits(public_key, signature, message) ==
    /\ PublicOf(signature.sk) = public_key
    /\ signature.msg = message
verify_ed25519_signature_accept_all(public_key, signature, message) == TRUE
verify_ed25519_signature_any_message(public_key, signature, message) ==
    /\ signature.flip = 0
    /\ PublicOf(signature.sk) = public_key
verify_ed25519_signature(public_key, signature, message) ==
    /\ signature.flip = 0
    /\ PublicOf(signature.sk) = public_key
    /\ signature.msg = message

(***************************************************************************)
(* SignatureMessageData::serial of the contract: the account address       *)
(* followed by the bytes of the country code.                              *)
(***************************************************************************)
ContractSerialTwoBytes(message_data) ==
    message_data.account_address
        \o [i \in 1..(IF Len(message_data.country_code) < 2
                      THEN Len(message_data.country_code) ELSE 2)
               |-> message_data.country_code[i]]
ContractSerial(message_data) ==
    message_data.account_address \o message_data.country_code

(***************************************************************************)
(* The vote parameter as it arrives: the u32 length prefix of the string,  *)
(* the string bytes that follow it and the signature after them            *)
(* (NoSignature: the parameter ends before a signature).                   *)
(***************************************************************************)
VoteParameterBytes(country_code, signature) ==
    [len |-> Len(country_code), bytes |-> country_code, sig |-> signature]

\* ctx.parameter_cursor().get(): None for a ParseError
ParseError == [ok |-> FALSE, country_code |-> <<>>, signature |-> NoSignature]
ParseVoteParameter(p) ==
    IF Len(p.bytes) # p.len \/ p.sig = NoSignature
    THEN ParseError
    ELSE [ok |-> TRUE, country_code |-> p.bytes, signature |-> p.sig]

\* options.iter().position(|o| *o == country_code): -1 for None
PositionOrFirst(opts, country_code) ==
    IF \E i \in 1..Len(opts) : opts[i] = country_code
    THEN (CHOOSE i \in 1..Len(opts) :
             /\ opts[i] = country_code
             /\ \A j \in 1..(i - 1) : opts[j] # country_code) - 1
    ELSE 0
Position(opts, country_code) ==
    IF \E i \in 1..Len(opts) : opts[i] = country_code
    THEN (CHOOSE i \in 1..Len(opts) :
             /\ opts[i] = country_code
             /\ \A j \in 1..(i - 1) : opts[j] # country_code) - 1
    ELSE -1

\* ballots.entry(acc).and_modify(|old| *old = new).or_insert(new)
UpsertAppend(map, acc, new_vote_index) == map \cup {<<acc, new_vote_index>>}
UpsertClearsOthers(map, acc, new_vote_index) == {<<acc, new_vote_index>>}
Upsert(map, acc, new_vote_index) ==
    IF \E e \in map : e[1] = acc
    THEN {IF e[1] = acc THEN <<acc, new_vote_index>> ELSE e : e \in map}
    ELSE map \cup {<<acc, new_vote_index>>}

\* ballots.get(acc): -1 for None
Get(map, acc) ==
    IF \E e \in map : e[1] = acc THEN (CHOOSE e \in map : e[1] = acc)[2] ELSE -1

(***************************************************************************)
(* init: the State built from the InitParameter.                           *)
(***************************************************************************)
InitParameters ==
    [description : {"Concordium EuroVision"},
     options : {<<CC_DK, CC_DE, CC_IT>>, <<>>},
     end_time : 1..(MaxTime - 1),
     verifier_public_key : {signing_keypair.public}]

NoEvent == [op |-> "init"]

init(param) ==
    /\ description = param.description
    /\ verifier_public_key = param.verifier_public_key
    /\ ballots = {}
    /\ end_time = param.end_time
    /\ options = param.options

(***************************************************************************)
(* vote: the value it returns and the ballots it leaves, by the checks of  *)
(* the function in their order.                                            *)
(***************************************************************************)
\* slot_time() > end_time
ElectionFinishedAtEndTime == slot_time >= end_time
ElectionNeverFinished == FALSE
ElectionFinished == slot_time > end_time

VoteOutcomeWriteBeforeVerify(sender, parameter) ==
    IF ElectionFinished
    THEN [result |-> "VotingFinished", ballots |-> ballots]
    ELSE IF sender.kind = "Contract"
    THEN [result |-> "ContractVoter", ballots |-> ballots]
    ELSE LET acc == sender.acc
             new_vote == ParseVoteParameter(parameter)
         IN  IF ~new_vote.ok
             THEN [result |-> "ParsingFailed", ballots |-> ballots]
             ELSE LET position == Position(options, new_vote.country_code)
                      message == ContractSerial(
                                    [account_address |-> acc,
                                     country_code |-> new_vote.country_code])
                  IN  IF position = -1
                      THEN [result |-> "InvalidVotingOption", ballots |-> ballots]
                      ELSE IF ~verify_ed25519_signature(
                                  verifier_public_key, new_vote.signature, message)
                      THEN [result |-> "InvalidSignature",
                            ballots |-> Upsert(ballots, acc, position)]
                      ELSE [result |-> "Ok",
                            ballots |-> Upsert(ballots, acc, position)]

VoteOutcomeSenderCheckedLast(sender, parameter) ==
    IF ElectionFinished
    THEN [result |-> "VotingFinished", ballots |-> ballots]
    ELSE LET acc == sender.acc
             new_vote == ParseVoteParameter(parameter)
         IN  IF ~new_vote.ok
             THEN [result |-> "ParsingFailed", ballots |-> ballots]
             ELSE LET position == Position(options, new_vote.country_code)
                      message == ContractSerial(
                                    [account_address |-> acc,
                                     country_code |-> new_vote.country_code])
                  IN  IF position = -1
                      THEN [result |-> "InvalidVotingOption", ballots |-> ballots]
                      ELSE IF ~verify_ed25519_signature(
                                  verifier_public_key, new_vote.signature, message)
                      THEN [result |-> "InvalidSignature", ballots |-> ballots]
                      ELSE IF sender.kind = "Contract"
                      THEN [result |-> "ContractVoter", ballots |-> ballots]
                      ELSE [result |-> "Ok",
                            ballots |-> Upsert(ballots, acc, position)]

VoteOutcomeOneVotePerAccount(sender, parameter) ==
    IF ElectionFinished
    THEN [result |-> "VotingFinished", ballots |-> ballots]
    ELSE IF sender.kind = "Contract"
    THEN [result |-> "ContractVoter", ballots |-> ballots]
    ELSE LET acc == sender.acc
             new_vote == ParseVoteParameter(parameter)
         IN  IF ~new_vote.ok
             THEN [result |-> "ParsingFailed", ballots |-> ballots]
             ELSE LET position == Position(options, new_vote.country_code)
                      message == ContractSerial(
                                    [account_address |-> acc,
                                     country_code |-> new_vote.country_code])
                  IN  IF position = -1
                      THEN [result |-> "InvalidVotingOption", ballots |-> ballots]
                      ELSE IF \/ ~verify_ed25519_signature(
                                    verifier_public_key, new_vote.signature, message)
                              \/ Get(ballots, acc) # -1
                      THEN [result |-> "InvalidSignature", ballots |-> ballots]
                      ELSE [result |-> "Ok",
                            ballots |-> Upsert(ballots, acc, position)]

VoteOutcome(sender, parameter) ==
    IF ElectionFinished
    THEN [result |-> "VotingFinished", ballots |-> ballots]
    ELSE IF sender.kind = "Contract"
    THEN [result |-> "ContractVoter", ballots |-> ballots]
    ELSE LET acc == sender.acc
             new_vote == ParseVoteParameter(parameter)
         IN  IF ~new_vote.ok
             THEN [result |-> "ParsingFailed", ballots |-> ballots]
             ELSE LET position == Position(options, new_vote.country_code)
                      \* vote_index as u32: exact, the options of an init parameter
                      \* of at most 65535 bytes are fewer than 2^32
                      new_vote_index == position
                      message == ContractSerial(
                                    [account_address |-> acc,
                                     country_code |-> new_vote.country_code])
                  IN  IF position = -1
                      THEN [result |-> "InvalidVotingOption", ballots |-> ballots]
                      ELSE IF ~verify_ed25519_signature(
                                  verifier_public_key, new_vote.signature, message)
                      THEN [result |-> "InvalidSignature", ballots |-> ballots]
                      ELSE [result |-> "Ok",
                            ballots |-> Upsert(ballots, acc, new_vote_index)]

\* The signatures a voter can put in a parameter: any string of 64 bytes,
\* but the verifier's signature over a message only once the verifier has
\* returned it.
VotedCodes == {CC_DK, CC_DE, CC_IN}
Forgeries(message) ==
    {Sign("sk_other", message)}
        \cup {FlipBit(Sign(signing_keypair.secret, message), n) : n \in 1..MaxFlip}
SignaturesFor(sender, country_code) ==
    attestations \cup
        (IF sender.kind = "Account" THEN Forgeries(sender.acc \o country_code) ELSE {})
VoteParameters(sender) ==
    UNION {{VoteParameterBytes(c, s) : s \in SignaturesFor(sender, c)} : c \in VotedCodes}
    \cup {VoteParameterBytes(c, NoSignature) : c \in {CC_DE, CC_IN}}
    \cup {[len |-> 2, bytes |-> <<68>>, sig |-> NoSignature]}

voteExtendsElection(sender, parameter) ==
    LET outcome == VoteOutcome(sender, parameter)
    IN  /\ ballots' = outcome.ballots
        /\ end_time' = IF outcome.result = "Ok" THEN slot_time + 1 ELSE end_time
        /\ ev' = [op |-> "vote", sender |-> sender, parameter |-> parameter,
                  time |-> slot_time, replaced |-> Get(ballots, sender.acc),
                  result |-> outcome.result]
        /\ UNCHANGED <<description, verifier_public_key, options,
                       slot_time, attestations, pending>>

vote(sender, parameter) ==
    LET outcome == VoteOutcome(sender, parameter)
    IN  /\ ballots' = outcome.ballots
        /\ ev' = [op |-> "vote", sender |-> sender, parameter |-> parameter,
                  time |-> slot_time, replaced |-> Get(ballots, sender.acc),
                  result |-> outcome.result]
        /\ UNCHANGED <<description, verifier_public_key, end_time, options,
                       slot_time, attestations, pending>>

(***************************************************************************)
(* view: the description, the end time and the tally of the ballots.       *)
(***************************************************************************)
TallyCountsOnce(map, opts) ==
    LET names == {opts[e[2] + 1] : e \in map}
    IN  [voting_option \in names |-> 1]
Tally(map, opts) ==
    LET names == {opts[e[2] + 1] : e \in map}
    IN  [voting_option \in names |->
            Cardinality({e \in map : opts[e[2] + 1] = voting_option})]

viewDrainsBallots ==
    /\ ev' = [op |-> "view",
              result |-> [description |-> description, end_time |-> end_time,
                          tally |-> Tally(ballots, options)]]
    /\ ballots' = {}
    /\ UNCHANGED <<description, verifier_public_key, end_time, options,
                   slot_time, attestations, pending>>

view ==
    /\ ev' = [op |-> "view",
              result |-> [description |-> description, end_time |-> end_time,
                          tally |-> Tally(ballots, options)]]
    /\ UNCHANGED <<description, verifier_public_key, ballots, end_time, options,
                   slot_time, attestations, pending>>

\* The host clock moves on.
Tick ==
    /\ slot_time < MaxTime
    /\ slot_time' = slot_time + 1
    /\ UNCHANGED <<description, verifier_public_key, ballots, end_time, options,
                   attestations, pending, ev>>

(***************************************************************************)
(* The verifier service.                                                   *)
(***************************************************************************)
COUNTRY_OF_RESIDENCY == 4
NATIONALITY == COUNTRY_OF_RESIDENCY + 1

AttributeNotInSet(tag, set) ==
    [kind |-> "AttributeNotInSet", attribute_tag |-> tag, set |-> set]
AttributeInSet(tag, set) ==
    [kind |-> "AttributeInSet", attribute_tag |-> tag, set |-> set]
NotResidentOf(country_code) ==
    <<AttributeNotInSet(COUNTRY_OF_RESIDENCY, {country_code})>>

\* SignatureMessageData::serial of the verifier: the bytes of the account
\* address, then the bytes of the country code.
VerifierSerialLengthPrefixed(message_data) ==
    message_data.account_address \o <<Len(message_data.country_code)>>
        \o message_data.country_code
VerifierSerial(message_data) ==
    message_data.account_address \o message_data.country_code

\* The match on request.statement.statements: the country code of the one
\* claim of the expected shape, or StatementNotAllowed.
StatementNotAllowed == [ok |-> FALSE, country_code |-> <<>>]
CountryCodeOfAnyKind(statement) ==
    IF /\ Len(statement) = 1
       /\ statement[1].attribute_tag = COUNTRY_OF_RESIDENCY
       /\ Cardinality(statement[1].set) = 1
       /\ Len(CHOOSE c \in statement[1].set : TRUE) = 2
    THEN [ok |-> TRUE, country_code |-> CHOOSE c \in statement[1].set : TRUE]
    ELSE StatementNotAllowed
CountryCodeOf(statement) ==
    IF /\ Len(statement) = 1
       /\ statement[1].kind = "AttributeNotInSet"
       /\ statement[1].attribute_tag = COUNTRY_OF_RESIDENCY
       /\ Cardinality(statement[1].set) = 1
       /\ Len(CHOOSE c \in statement[1].set : TRUE) = 2
    THEN [ok |-> TRUE, country_code |-> CHOOSE c \in statement[1].set : TRUE]
    ELSE StatementNotAllowed

\* What get_account_info answers: an error, or the account's credentials,
\* of which the worker reads the one at index 0.
CredentialIds == {"cred_0", "cred_1"}
NodeError == [ok |-> FALSE, has_0 |-> FALSE, cred_id |-> "none", kind |-> "none"]
NoCredential == [ok |-> TRUE, has_0 |-> FALSE, cred_id |-> "none", kind |-> "none"]
NodeAnswers ==
    {NodeError, NoCredential}
        \cup [ok : {TRUE}, has_0 : {TRUE}, cred_id : CredentialIds,
              kind : {"Initial", "Normal"}]

\* check_proof_worker, from the answer of the node on: the result, the
\* signature returned and the calls made to the node, to the verification
\* primitive and to the signing key, in their order.
Reply(result, signature, calls) ==
    [result |-> result, signature |-> signature, calls |-> calls]

\* account_credentials.get(&0) is None, or its cred_id is not the request's
CredentialMismatchOnlyMissing(request, answer) == ~answer.has_0
CredentialMismatch(request, answer) ==
    \/ ~answer.has_0
    \/ answer.cred_id # request.credential

CheckProofInitialFirst(request, answer, proof_verifies) ==
    IF ~answer.ok
    THEN Reply("NodeAccess", NoSignature, <<"get_account_info">>)
    ELSE IF answer.has_0 /\ answer.kind = "Initial"
    THEN Reply("NotAllowed", NoSignature, <<"get_account_info">>)
    ELSE IF CredentialMismatch(request, answer)
    THEN Reply("Credential", NoSignature, <<"get_account_info">>)
    ELSE LET country_code == CountryCodeOf(request.statement)
         IN  IF ~country_code.ok
             THEN Reply("StatementNotAllowed", NoSignature, <<"get_account_info">>)
             ELSE IF proof_verifies
             THEN Reply("Ok",
                        Sign(signing_keypair.secret,
                             VerifierSerial([account_address |-> request.address,
                                             country_code |-> country_code.country_code])),
                        <<"get_account_info", "verify", "sign">>)
             ELSE Reply("InvalidProofs", NoSignature, <<"get_account_info", "verify">>)

CheckProof(request, answer, proof_verifies) ==
    IF ~answer.ok
    THEN Reply("NodeAccess", NoSignature, <<"get_account_info">>)
    ELSE IF CredentialMismatch(request, answer)
    THEN Reply("Credential", NoSignature, <<"get_account_info">>)
    ELSE IF answer.kind = "Initial"
    THEN Reply("NotAllowed", NoSignature, <<"get_account_info">>)
    ELSE LET country_code == CountryCodeOf(request.statement)
         IN  IF ~country_code.ok
             THEN Reply("StatementNotAllowed", NoSignature, <<"get_account_info">>)
             ELSE IF proof_verifies
             THEN Reply("Ok",
                        Sign(signing_keypair.secret,
                             VerifierSerial([account_address |-> request.address,
                                             country_code |-> country_code.country_code])),
                        <<"get_account_info", "verify", "sign">>)
             ELSE Reply("InvalidProofs", NoSignature, <<"get_account_info", "verify">>)

\* The requests of the voters of the election, and requests of every shape.
ProofRequest(address, credential, statement) ==
    [address |-> address, credential |-> credential, statement |-> statement]
CredentialOf(address) == IF address = ACC_0 THEN "cred_0" ELSE "cred_1"
NoRequest == ProofRequest(<<>>, "none", <<>>)
RequestSlots == {"r1"}
VoterRequests ==
    {ProofRequest(ACC_0, CredentialOf(ACC_0), st) :
        st \in {NotResidentOf(CC_DK), NotResidentOf(CC_DE), NotResidentOf(CC_DEU)}}
    \cup {ProofRequest(ACC_1, CredentialOf(ACC_1), NotResidentOf(CC_DK))}
Statements ==
    {NotResidentOf(CC_DK), NotResidentOf(CC_DE), NotResidentOf(CC_DEU),
     NotResidentOf(<<68>>),
     <<>>,
     NotResidentOf(CC_DK) \o NotResidentOf(CC_DE),
     <<AttributeInSet(COUNTRY_OF_RESIDENCY, {CC_DK})>>,
     <<AttributeNotInSet(NATIONALITY, {CC_DK})>>,
     <<AttributeNotInSet(COUNTRY_OF_RESIDENCY, {})>>,
     <<AttributeNotInSet(COUNTRY_OF_RESIDENCY, {CC_DK, CC_DE})>>}
ProofRequests ==
    {ProofRequest(a, c, st) : a \in Accounts, c \in CredentialIds, st \in Statements}

\* StatusCode::NOT_FOUND, BAD_REQUEST and INTERNAL_SERVER_ERROR
NOT_FOUND == 404
BAD_REQUEST == 400
INTERNAL_SERVER_ERROR == 500

\* mk_reply: the body {message, code} sent with the status code
mk_reply(message, code) == [status |-> code, code |-> code, message |-> message]

\* The rejections handle_rejection gets: no route matched, a ProofError of
\* the worker, a body that is no ProofRequest, and rejections of other
\* filters (the method, the content length).
FilterRejections ==
    {"NotFound", "BodyDeserializeError", "MethodNotAllowed", "PayloadTooLarge"}

handle_rejection_client_error_default(err) ==
    IF err = "NotFound" THEN mk_reply("Not found.", NOT_FOUND)
    ELSE IF err = "NodeAccess"
    THEN mk_reply("Cannot access the node", INTERNAL_SERVER_ERROR)
    ELSE mk_reply("Bad request.", BAD_REQUEST)
handle_rejection(err) ==
    IF err = "NotFound" THEN mk_reply("Not found.", NOT_FOUND)
    ELSE IF err = "NotAllowed" THEN mk_reply("Needs proof.", BAD_REQUEST)
    ELSE IF err = "InvalidProofs" THEN mk_reply("Invalid proofs.", BAD_REQUEST)
    ELSE IF err = "StatementNotAllowed"
    THEN mk_reply("Statement not allowed.", BAD_REQUEST)
    ELSE IF err = "NodeAccess"
    THEN mk_reply("Cannot access the node", INTERNAL_SERVER_ERROR)
    ELSE IF err = "BodyDeserializeError" THEN mk_reply("Malformed body.", BAD_REQUEST)
    ELSE mk_reply("Internal error.", INTERNAL_SERVER_ERROR)

\* warp::reply::json(&r) of handle_provide_proof: status 200, no code field
JsonReply == [status |-> 200, code |-> -1, message |-> ""]

\* A request that a filter of the route rejects before the handler runs.
reject_request(err) ==
    /\ ev' = [op |-> "rejection", err |-> err, http |-> handle_rejection(err)]
    /\ UNCHANGED <<description, verifier_public_key, ballots, end_time, options,
                   slot_time, attestations, pending>>

\* handle_provide_proof up to the await of get_account_info.
handle_provide_proof(slot, request) ==
    /\ pending[slot] = NoRequest
    /\ pending' = [pending EXCEPT ![slot] = request]
    /\ ev' = [op |-> "request", slot |-> slot, request |-> request]
    /\ UNCHANGED <<description, verifier_public_key, ballots, end_time, options,
                   slot_time, attestations>>

check_proof_worker_shared_request(slot, answer, proof_verifies) ==
    LET request == pending[slot]
        others == {o \in DOMAIN pending : o # slot /\ pending[o] # NoRequest}
        latest == IF others = {} THEN request ELSE pending[CHOOSE o \in others : TRUE]
        reply == CheckProof(latest, answer, proof_verifies)
    IN  /\ request # NoRequest
        /\ pending' = [pending EXCEPT ![slot] = NoRequest]
        /\ attestations' = IF reply.result = "Ok"
                           THEN attestations \cup {reply.signature}
                           ELSE attestations
        /\ ev' = [op |-> "prove", slot |-> slot, request |-> request, answer |-> answer,
                  proof_verifies |-> proof_verifies, result |-> reply.result,
                  signature |-> reply.signature, calls |-> reply.calls,
                  http |-> IF reply.result = "Ok" THEN JsonReply
                           ELSE handle_rejection(reply.result)]
        /\ UNCHANGED <<description, verifier_public_key, ballots, end_time, options,
                       slot_time>>

\* The node answers and check_proof_worker runs to its end.
check_proof_worker(slot, answer, proof_verifies) ==
    LET request == pending[slot]
        reply == CheckProof(request, answer, proof_verifies)
    IN  /\ request # NoRequest
        /\ pending' = [pending EXCEPT ![slot] = NoRequest]
        /\ attestations' = IF reply.result = "Ok"
                           THEN attestations \cup {reply.signature}
                           ELSE attestations
        /\ ev' = [op |-> "prove", slot |-> slot, request |-> request, answer |-> answer,
                  proof_verifies |-> proof_verifies, result |-> reply.result,
                  signature |-> reply.signature, calls |-> reply.calls,
                  http |-> IF reply.result = "Ok" THEN JsonReply
                           ELSE handle_rejection(reply.result)]
        /\ UNCHANGED <<description, verifier_public_key, ballots, end_time, options,
                       slot_time>>

Verifier(requests) ==
    \/ \E slot \in DOMAIN pending : \E request \in requests :
          handle_provide_proof(slot, request)
    \/ \E slot \in DOMAIN pending : \E answer \in NodeAnswers :
          \E proof_verifies \in BOOLEAN :
             check_proof_worker(slot, answer, proof_verifies)
    \/ \E err \in FilterRejections : reject_request(err)

Init ==
    /\ \E param \in InitParameters : init(param)
    /\ slot_time = 1
    /\ attestations = {}
    /\ pending = [slot \in RequestSlots |-> NoRequest]
    /\ ev = NoEvent

Next ==
    \/ \E sender \in Senders : \E parameter \in VoteParameters(sender) :
          vote(sender, parameter)
    \/ view
    \/ Tick
    \/ Verifier(VoterRequests)

Spec == Init /\ [][Next]_vars

\* The verifier alone with two requests in flight at a time: warp runs the
\* handler of every request as a task of its own, each with its clone of
\* the client and of the Server state.
ConcurrentSlots == {"r1", "r2"}
ConcurrentRequests ==
    {ProofRequest(ACC_0, CredentialOf(ACC_0), NotResidentOf(CC_DK)),
     ProofRequest(ACC_1, CredentialOf(ACC_1), NotResidentOf(CC_DE)),
     ProofRequest(ACC_1, CredentialOf(ACC_1), <<>>)}
InitConcurrent ==
    /\ \E param \in InitParameters : init(param)
    /\ slot_time = 1
    /\ attestations = {}
    /\ pending = [slot \in ConcurrentSlots |-> NoRequest]
    /\ ev = NoEvent
NextConcurrent == Verifier(ConcurrentRequests)
SpecConcurrent == InitConcurrent /\ [][NextConcurrent]_vars

\* The verifier alone, with requests of every shape.
NextVerifier == Verifier(ProofRequests)

SpecVerifier == Init /\ [][NextVerifier]_vars

(***************************************************************************)
(* The claims about the election contract.                                 *)
(***************************************************************************)
\* The last operation was a vote (ev), and a step that is a call of vote.
IsVote(e) == e.op = "vote"
VoteStep == IsVote(ev') /\ ev' # ev
Listed(country_code) == \E i \in 1..Len(options) : options[i] = country_code
IndexOf(country_code) ==
    (CHOOSE i \in 1..Len(options) :
        /\ options[i] = country_code
        /\ \A j \in 1..(i - 1) : options[j] # country_code) - 1
\* a parameter that decodes: the string is as long as its prefix says and
\* a signature follows it
WellFormed(parameter) ==
    Len(parameter.bytes) = parameter.len /\ parameter.sig # NoSignature
\* the attestation of the verifier for (address, country code)
AttestationFor(acc, country_code) ==
    [sk |-> signing_keypair.secret, msg |-> acc \o country_code, flip |-> 0]
EntriesOf(acc) == {e \in ballots : e[1] = acc}

\* C1: a vote by an account for a listed country code, with the verifier's
\* attestation over address and country code, at a slot time up to and
\* including end_time, succeeds and leaves the index of the country code as
\* the sender's ballot.
C1_ValidVoteSucceeds ==
    (/\ IsVote(ev)
     /\ ev.sender.kind = "Account"
     /\ WellFormed(ev.parameter)
     /\ Listed(ev.parameter.bytes)
     /\ ev.parameter.sig = AttestationFor(ev.sender.acc, ev.parameter.bytes)
     /\ verifier_public_key = signing_keypair.public
     /\ ev.time <= end_time)
    => /\ ev.result = "Ok"
       /\ EntriesOf(ev.sender.acc) = {<<ev.sender.acc, IndexOf(ev.parameter.bytes)>>}

C1_Witness ==
    /\ IsVote(ev)
    /\ ev.result = "Ok"
    /\ ev.time = end_time
    /\ ev.parameter.sig = AttestationFor(ev.sender.acc, ev.parameter.bytes)
    /\ <<ev.sender.acc, IndexOf(ev.parameter.bytes)>> \in ballots

\* C2: every ballot entry <<a, i>> is written by a vote of sender a that
\* carries a signature valid under the stored key over a and options[i];
\* with the stored key the verifier's, the verifier has returned an
\* attestation for (a, options[i]) before.
C2_BallotWritten ==
    \A e \in ballots' \ ballots :
        /\ VoteStep
        /\ ev'.sender = AccountSender(e[1])
        /\ e[2] \in 0..(Len(options) - 1)
        /\ ev'.parameter.bytes = options[e[2] + 1]
        /\ ev'.parameter.sig.flip = 0
        /\ PublicOf(ev'.parameter.sig.sk) = verifier_public_key
        /\ ev'.parameter.sig.msg = e[1] \o options[e[2] + 1]
C2_BallotAttested ==
    verifier_public_key = signing_keypair.public =>
        \A e \in ballots :
            /\ e[2] \in 0..(Len(options) - 1)
            /\ AttestationFor(e[1], options[e[2] + 1]) \in attestations
C3_LateVoteStep ==
    (VoteStep /\ ev'.time > end_time)
    => /\ ev'.result = "VotingFinished"
       /\ UNCHANGED contractState
C3_LateVoteFails == [][C3_LateVoteStep]_vars

C3_Witness ==
    /\ IsVote(ev)
    /\ ev.time > end_time
    /\ ev.sender.kind = "Account"
    /\ ev.parameter.sig = AttestationFor(ev.sender.acc, ev.parameter.bytes)
    /\ Listed(ev.parameter.bytes)
    /\ ev.result = "VotingFinished"

\* C4: a vote that fails, with any of the five errors, leaves description,
\* verifier_public_key, options, end_time and ballots as they were.
VotingErrors ==
    {"ParsingFailed", "VotingFinished", "InvalidVotingOption", "ContractVoter",
     "InvalidSignature"}
C4_FailedVoteStep ==
    (VoteStep /\ ev'.result # "Ok")
    => /\ ev'.result \in VotingErrors
       /\ UNCHANGED contractState
C4_FailedVoteChangesNothing == [][C4_FailedVoteStep]_vars

C4_Witness ==
    /\ IsVote(ev)
    /\ ev.result = "InvalidSignature"
    /\ ev.replaced # -1
    /\ ev.replaced # IndexOf(ev.parameter.bytes)
    /\ EntriesOf(ev.sender.acc) = {<<ev.sender.acc, ev.replaced>>}

\* C5: every account has at most one ballot entry, and after a successful
\* vote the entry of the sender is the one of that vote: a vote for Y after
\* a vote for X leaves one entry, for Y.
C5_OneBallotLatestVote ==
    /\ \A a \in Accounts : Cardinality(EntriesOf(a)) <= 1
    /\ (IsVote(ev) /\ ev.result = "Ok") =>
          EntriesOf(ev.sender.acc) = {<<ev.sender.acc, IndexOf(ev.parameter.bytes)>>}

C5_Witness ==
    /\ IsVote(ev)
    /\ ev.result = "Ok"
    /\ ev.replaced # -1
    /\ ev.replaced # IndexOf(ev.parameter.bytes)
    /\ Cardinality(EntriesOf(ev.sender.acc)) = 1

\* C6: in an active election a vote by an account with a parameter that
\* decodes and a country code that is not among the options fails with
\* InvalidVotingOption, whatever the signature.
C6_UnknownOptionFails ==
    (/\ IsVote(ev)
     /\ ev.time <= end_time
     /\ ev.sender.kind = "Account"
     /\ WellFormed(ev.parameter)
     /\ ~Listed(ev.parameter.bytes))
    => ev.result = "InvalidVotingOption"

C6_Witness ==
    /\ IsVote(ev)
    /\ ev.time <= end_time
    /\ ~Listed(ev.parameter.bytes)
    /\ ev.parameter.sig = AttestationFor(ev.sender.acc, ev.parameter.bytes)
    /\ ev.parameter.sig \in attestations
    /\ ev.result = "InvalidVotingOption"

\* C7: in an active election, for an account and a listed country code, an
\* attestation that differs in a bit from the valid one makes vote fail
\* with InvalidSignature and records no ballot.
TamperedFor(signature, acc, country_code) ==
    /\ signature.flip # 0
    /\ [signature EXCEPT !.flip = 0] = AttestationFor(acc, country_code)
C7_TamperedVoteStep ==
    (/\ VoteStep
     /\ ev'.time <= end_time
     /\ ev'.sender.kind = "Account"
     /\ WellFormed(ev'.parameter)
     /\ Listed(ev'.parameter.bytes)
     /\ TamperedFor(ev'.parameter.sig, ev'.sender.acc, ev'.parameter.bytes))
    => /\ ev'.result = "InvalidSignature"
       /\ ballots' = ballots
C7_TamperedAttestationFails == [][C7_TamperedVoteStep]_vars

C7_Witness ==
    /\ IsVote(ev)
    /\ ev.time <= end_time
    /\ Listed(ev.parameter.bytes)
    /\ TamperedFor(ev.parameter.sig, ev.sender.acc, ev.parameter.bytes)
    /\ AttestationFor(ev.sender.acc, ev.parameter.bytes) \in attestations
    /\ ev.result = "InvalidSignature"
    /\ EntriesOf(ev.sender.acc) = {}

(***************************************************************************)
(* The claims about the verifier.                                          *)
(***************************************************************************)
IsProof(e) == e.op = "prove"
Called(e, call) == \E i \in 1..Len(e.calls) : e.calls[i] = call
\* the one shape of statement the protocol allows: one claim, that the
\* residency attribute is not in a set of one element of two bytes
WellShaped(statement) ==
    /\ Len(statement) = 1
    /\ statement[1].kind = "AttributeNotInSet"
    /\ statement[1].attribute_tag = 4
    /\ \E c \in statement[1].set : statement[1].set = {c} /\ Len(c) = 2
ProofErrors ==
    {"NotAllowed", "InvalidProofs", "NodeAccess", "Credential", "StatementNotAllowed"}

\* C8: a request whose statement has the wrong shape fails with
\* StatementNotAllowed without a query to the node and without a call of
\* the verification primitive, whatever the credential of the account.
C8_MalformedFailsBeforeNetwork ==
    (IsProof(ev) /\ ~WellShaped(ev.request.statement))
    => /\ ev.result = "StatementNotAllowed"
       /\ ev.calls = <<>>

\* C9: the verification primitive is called only when the shape check of
\* the statement has passed; a request with a malformed statement never
\* reaches the primitive and gets no signature.
C9_ValidationBeforeVerification ==
    IsProof(ev) =>
        /\ Called(ev, "verify") => WellShaped(ev.request.statement)
        /\ ~WellShaped(ev.request.statement) =>
              /\ ev.result \in ProofErrors
              /\ ev.signature = NoSignature
              /\ ~Called(ev, "sign")

C9_Witness ==
    /\ IsProof(ev)
    /\ ~WellShaped(ev.request.statement)
    /\ Len(ev.request.statement) = 1
    /\ ev.request.statement[1].kind = "AttributeInSet"
    /\ ev.answer.ok /\ ev.answer.has_0 /\ ev.answer.kind = "Normal"
    /\ ev.answer.cred_id = ev.request.credential
    /\ ev.proof_verifies
    /\ ev.result = "StatementNotAllowed"
    /\ ~Called(ev, "verify")

\* C10: the verifier returns a signature exactly when the credential at
\* index 0 exists with the id of the request, is of the normal kind, the
\* statement is well shaped and the primitive returned true; the message
\* signed is the address followed by the two bytes of the code. Every other
\* request ends in an error without a signature.
C10_Accepts(e) ==
    /\ e.answer.ok
    /\ e.answer.has_0
    /\ e.answer.cred_id = e.request.credential
    /\ e.answer.kind = "Normal"
    /\ WellShaped(e.request.statement)
    /\ e.proof_verifies
C10_SignatureOnlyWhenVerified ==
    /\ IsProof(ev) =>
          IF C10_Accepts(ev)
          THEN /\ ev.result = "Ok"
               /\ \E c \in ev.request.statement[1].set :
                     /\ Len(c) = 2
                     /\ ev.signature =
                           [sk |-> signing_keypair.secret,
                            msg |-> ev.request.address \o c, flip |-> 0]
          ELSE /\ ev.result \in ProofErrors
               /\ ev.signature = NoSignature
    /\ \A sig \in attestations :
          /\ sig.sk = signing_keypair.secret
          /\ sig.flip = 0
          /\ Len(sig.msg) = AddressLen + 2

C10_Witness ==
    /\ IsProof(ev)
    /\ C10_Accepts(ev)
    /\ ev.result = "Ok"
    /\ ev.signature \in attestations
    /\ ev.signature.msg = ev.request.address \o CC_DE


(***************************************************************************)
(* The claims about the two components together, the tally and the frame.  *)
(***************************************************************************)
MessageData(acc, country_code) ==
    [account_address |-> acc, country_code |-> country_code]
SerialisedCodes == {CC_DK, CC_DE, CC_IT, CC_IN, CC_DEU, <<68>>, <<>>}

\* C11: the verifier and the contract derive the same message for every
\* address and country code, the address in its fixed width followed by the
\* bytes of the code without a length prefix; so the attestation the
\* verifier returns for (a, c) is accepted by vote from sender a for c in
\* an active election that lists c and stores the verifier's key.
C11_SameLayout ==
    \A a \in Accounts : \A c \in SerialisedCodes :
        LET off == VerifierSerial(MessageData(a, c))
            on == ContractSerial(MessageData(a, c))
        IN  /\ off = on
            /\ Len(off) = AddressLen + Len(c)
            /\ \A i \in 1..AddressLen : off[i] = a[i]
            /\ \A i \in 1..Len(c) : off[AddressLen + i] = c[i]
C11_SameCanonicalMessage ==
    /\ C11_SameLayout
    /\ (IsProof(ev) /\ ev.result = "Ok") =>
          \E c \in ev.request.statement[1].set :
             ev.signature.msg = ContractSerial(MessageData(ev.request.address, c))
    /\ (/\ IsVote(ev)
        /\ ev.sender.kind = "Account"
        /\ WellFormed(ev.parameter)
        /\ Listed(ev.parameter.bytes)
        /\ ev.time <= end_time
        /\ verifier_public_key = signing_keypair.public
        /\ ev.parameter.sig \in attestations
        /\ ev.parameter.sig.msg =
              VerifierSerial(MessageData(ev.sender.acc, ev.parameter.bytes)))
       => ev.result = "Ok"

C11_Witness ==
    /\ IsVote(ev)
    /\ ev.result = "Ok"
    /\ ev.parameter.sig \in attestations
    /\ ev.parameter.sig.msg =
          VerifierSerial(MessageData(ev.sender.acc, ev.parameter.bytes))
    /\ Len(ev.parameter.sig.msg) = AddressLen + 2
    /\ ev.sender.acc = ACC_1


IsView(e) == e.op = "view"
\* the accounts whose ballot points at an option of the given name
VotersOf(name) ==
    {a \in Accounts : \E e \in ballots : e[1] = a /\ options[e[2] + 1] = name}

\* C12: the tally view returns has, for every option name, the number of
\* accounts whose ballot points at that name, and has no entry for a name
\* no ballot points at.
C12_TallyCountsBallots ==
    IsView(ev) =>
        /\ DOMAIN ev.result.tally =
              {options[i] : i \in {j \in 1..Len(options) : VotersOf(options[j]) # {}}}
        /\ \A name \in DOMAIN ev.result.tally :
              ev.result.tally[name] = Cardinality(VotersOf(name))

C12_Witness ==
    /\ IsView(ev)
    /\ options = <<CC_DK, CC_DE, CC_IT>>
    /\ DOMAIN ev.result.tally = {CC_DK}
    /\ ev.result.tally[CC_DK] = 2


\* C13: in an active election a vote whose sender is a contract fails with
\* ContractVoter, also with a parameter and a signature that an account
\* could vote with; every key of ballots is an account address.
C13_OnlyAccountsVote ==
    /\ (IsVote(ev) /\ ev.time <= end_time /\ ev.sender.kind = "Contract")
          => ev.result = "ContractVoter"
    /\ \A e \in ballots : e[1] \in Accounts /\ Len(e[1]) = AddressLen

C13_Witness ==
    /\ IsVote(ev)
    /\ ev.time <= end_time
    /\ ev.sender = ContractSender
    /\ WellFormed(ev.parameter)
    /\ Listed(ev.parameter.bytes)
    /\ ev.parameter.sig \in attestations
    /\ ev.parameter.sig = AttestationFor(ACC_0, ev.parameter.bytes)
    /\ ev.result = "ContractVoter"
    /\ ballots # {}


\* C14: options, end_time, verifier_public_key and description keep the
\* values init was given: no vote, successful or failed, and no view changes
\* them.
C14_InitValues ==
    [description |-> description, options |-> options, end_time |-> end_time,
     verifier_public_key |-> verifier_public_key] \in InitParameters
C14_ConfigurationKept ==
    UNCHANGED <<description, verifier_public_key, end_time, options>>
C14_ConfigurationImmutable == []C14_InitValues /\ [][C14_ConfigurationKept]_vars

C14_Witness ==
    /\ IsVote(ev)
    /\ ev.result = "Ok"
    /\ ev.time <= end_time
    /\ ev.replaced # -1
    /\ options = <<CC_DK, CC_DE, CC_IT>>
    /\ description = "Concordium EuroVision"


\* C15: every failure of the service gets one response class and the code
\* of the body is the HTTP status: no route 404; NotAllowed, InvalidProofs,
\* StatementNotAllowed and a malformed body 400; NodeAccess and every other
\* rejection, the Credential error among them, 500.
IsRejection(e) == e.op = "rejection"
C15_Status(err) ==
    IF err = "NotFound" THEN 404
    ELSE IF err \in {"NotAllowed", "InvalidProofs", "StatementNotAllowed",
                     "BodyDeserializeError"} THEN 400
    ELSE 500
C15_ErrorResponses ==
    /\ (IsProof(ev) /\ ev.result # "Ok") =>
          /\ ev.http.status = C15_Status(ev.result)
          /\ ev.http.code = ev.http.status
    /\ IsRejection(ev) =>
          /\ ev.http.status = C15_Status(ev.err)
          /\ ev.http.code = ev.http.status

C15_Witness ==
    /\ IsProof(ev)
    /\ ev.result = "Credential"
    /\ ev.http.status = 500
    /\ ev.http.code = 500
    /\ ev.http.message = "Internal error."


\* C16: view is read-only: in every state, before and after end_time, a
\* call of view changes nothing of the election and returns the stored
\* description and end_time.
ViewStep == IsView(ev') /\ ev' # ev
C16_ViewStep ==
    ViewStep =>
        /\ UNCHANGED contractState
        /\ ev'.result.description = description
        /\ ev'.result.end_time = end_time
C16_ViewReadOnly == [][C16_ViewStep]_vars

C16_Witness ==
    /\ IsView(ev)
    /\ slot_time > end_time
    /\ Cardinality(ballots) = 2
    /\ ev.result.end_time = end_time
    /\ ev.result.description = description


\* C17: when several reasons to reject a vote hold at once, the error is
\* the first of VotingFinished, ContractVoter, ParsingFailed,
\* InvalidVotingOption, InvalidSignature whose reason holds.
C17_SignatureValid(e) ==
    /\ e.parameter.sig.flip = 0
    /\ PublicOf(e.parameter.sig.sk) = verifier_public_key
    /\ e.parameter.sig.msg = e.sender.acc \o e.parameter.bytes
C17_First(e) ==
    IF e.time > end_time THEN "VotingFinished"
    ELSE IF e.sender.kind = "Contract" THEN "ContractVoter"
    ELSE IF ~WellFormed(e.parameter) THEN "ParsingFailed"
    ELSE IF ~Listed(e.parameter.bytes) THEN "InvalidVotingOption"
    ELSE IF ~C17_SignatureValid(e) THEN "InvalidSignature"
    ELSE "Ok"
C18_IndexInBounds ==
    /\ \A e \in ballots : e[2] >= 0 /\ e[2] < Len(options)
    /\ IsView(ev) =>
          DOMAIN ev.result.tally \subseteq {options[i] : i \in 1..Len(options)}

C18_Witness ==
    /\ IsView(ev)
    /\ \E e \in ballots : e[2] = 1
    /\ \E e \in ballots : e[2] = 0
    /\ DOMAIN ev.result.tally = {CC_DK, CC_DE}


\* C19: an attestation is bound to one address and one country code: the
\* attestation the verifier returned for (A, c) fails with InvalidSignature
\* when another account submits it and when A submits it for another listed
\* option; no ballot is recorded with the attestation of another account.
C19_IssuedFor(signature, acc, country_code) ==
    /\ signature \in attestations
    /\ signature.msg = acc \o country_code
C19_ForeignAttestationStep ==
    (/\ VoteStep
     /\ ev'.time <= end_time
     /\ ev'.sender.kind = "Account"
     /\ WellFormed(ev'.parameter)
     /\ Listed(ev'.parameter.bytes)
     /\ ev'.parameter.sig \in attestations
     /\ ~C19_IssuedFor(ev'.parameter.sig, ev'.sender.acc, ev'.parameter.bytes))
    => /\ ev'.result = "InvalidSignature"
       /\ ballots' = ballots
C19_AttestationBound == [][C19_ForeignAttestationStep]_vars

C19_Witness ==
    /\ IsVote(ev)
    /\ ev.time <= end_time
    /\ ev.sender = AccountSender(ACC_1)
    /\ ev.parameter.bytes = CC_DE
    /\ C19_IssuedFor(ev.parameter.sig, ACC_0, CC_DE)
    /\ ev.result = "InvalidSignature"
    /\ EntriesOf(ACC_1) = {}


\* C20: once slot_time is past end_time the election is closed for good: no
\* vote succeeds from then on, the ballots stay exactly as they are, the
\* election stays closed, and the tally view computes is final.
C20_ClosedStep ==
    slot_time > end_time
    => /\ ballots' = ballots
       /\ slot_time' > end_time'
       /\ (VoteStep => ev'.result # "Ok")
       /\ Tally(ballots', options') = Tally(ballots, options)
       /\ (IsView(ev') /\ ev' # ev => ev'.result.tally = Tally(ballots, options))
C20_ClosedForGood == [][C20_ClosedStep]_vars

C20_Witness ==
    /\ slot_time > end_time
    /\ ballots # {}
    /\ IsVote(ev)
    /\ ev.time > end_time
    /\ WellFormed(ev.parameter)
    /\ Listed(ev.parameter.bytes)
    /\ ev.parameter.sig = AttestationFor(ev.sender.acc, ev.parameter.bytes)
    /\ EntriesOf(ev.sender.acc) # {}
    /\ \A e \in EntriesOf(ev.sender.acc) : e[2] # IndexOf(ev.parameter.bytes)
    /\ ev.result = "VotingFinished"


(***************************************************************************)
(* The two serial functions and the signature check on their own: the      *)
(* verifier signs the serial of one (address, country code), the contract  *)
(* verifies the signature over the serial of another, for country codes of *)
(* zero to three bytes.                                                    *)
(***************************************************************************)
SerialCodes == {<<>>, <<68>>, CC_DK, CC_DE, CC_DEU, <<68, 75, 68>>}
SerialData == [account_address : Accounts, country_code : SerialCodes]

\* handlers.rs: to_bytes(&message_data) and signing_keypair.sign(&message);
\* lib.rs: to_bytes(&message_data) and verify_ed25519_signature
sign_then_verify(signed_data, submitted_data) ==
    LET signature == Sign(signing_keypair.secret, VerifierSerial(signed_data))
        message == ContractSerial(submitted_data)
    IN  /\ ev' = [op |-> "serial", signed_data |-> signed_data,
                  submitted_data |-> submitted_data,
                  signature |-> signature, message |-> message,
                  verified |-> verify_ed25519_signature(
                                  verifier_public_key, signature, message)]
        /\ UNCHANGED <<description, verifier_public_key, ballots, end_time, options,
                       slot_time, attestations, pending>>

NextSerial ==
    \E signed_data \in SerialData : \E submitted_data \in SerialData :
        sign_then_verify(signed_data, submitted_data)

SpecSerial == Init /\ [][NextSerial]_vars

IsSerial(e) == e.op = "serial"
TwoBytes(message_data) == Len(message_data.country_code) = 2

\* C21 as stated: distinct (address, country code) pairs have distinct
\* canonical messages, and this only because every country code is two
\* bytes long: with a country code of another length, two distinct pairs
\* have the same message.
C21_UnambiguousOnlyForTwoBytes ==
    IsSerial(ev) =>
        /\ (/\ TwoBytes(ev.signed_data) /\ TwoBytes(ev.submitted_data)
            /\ ev.signed_data # ev.submitted_data)
           => ev.signature.msg # ev.message /\ ~ev.verified
        /\ ~(TwoBytes(ev.signed_data) /\ TwoBytes(ev.submitted_data))
           => \E p \in SerialData : \E q \in SerialData :
                 p # q /\ VerifierSerial(p) = ContractSerial(q)

\* C21 as amended: distinct (address, country code) pairs have distinct
\* canonical messages whatever the length of the country code, so that a
\* signature over one pair verifies for that pair and for no other.
C21_DistinctMessages ==
    IsSerial(ev) =>
        /\ ev.signature.msg = ev.message <=> ev.signed_data = ev.submitted_data
        /\ ev.verified <=> ev.signed_data = ev.submitted_data

C21_Witness ==
    /\ IsSerial(ev)
    /\ ev.signed_data = [account_address |-> ACC_0, country_code |-> CC_DE]
    /\ ev.submitted_data = [account_address |-> ACC_0, country_code |-> CC_DEU]
    /\ ev.signature.msg # ev.message
    /\ ~ev.verified


\* C22: an attestation is reusable and resubmitting it is idempotent: while
\* the election is active, every vote of an account with the verifier's
\* attestation for a listed country code succeeds, whatever the account
\* voted before; when the account's ballot is that code already, the
\* contract state after the vote is the state before it; and no step takes
\* an attestation away from those the verifier has returned.
C22_AttestedVoteStep ==
    /\ VoteStep
    /\ ev'.time <= end_time
    /\ ev'.sender.kind = "Account"
    /\ WellFormed(ev'.parameter)
    /\ Listed(ev'.parameter.bytes)
    /\ ev'.parameter.sig = AttestationFor(ev'.sender.acc, ev'.parameter.bytes)
C22_ReuseStep ==
    /\ attestations \subseteq attestations'
    /\ C22_AttestedVoteStep =>
          /\ ev'.result = "Ok"
          /\ <<ev'.sender.acc, IndexOf(ev'.parameter.bytes)>> \in ballots'
          /\ <<ev'.sender.acc, IndexOf(ev'.parameter.bytes)>> \in ballots
                => contractState' = contractState
C22_ResubmissionIdempotent == [][C22_ReuseStep]_vars

C22_Witness ==
    /\ IsVote(ev)
    /\ ev.sender = AccountSender(ACC_0)
    /\ ev.time <= end_time
    /\ ev.result = "Ok"
    /\ ev.parameter.bytes = CC_DK
    /\ ev.parameter.sig = AttestationFor(ACC_0, CC_DK)
    /\ ev.replaced = IndexOf(CC_DK)
    /\ AttestationFor(ACC_0, CC_DE) \in attestations


\* C23: a successful vote of account A changes the ballot of A only, the
\* ballot of every other account is after the call what it was before; and
\* no operation removes the ballot of any account.
C23_OthersOf(map, acc) == {e \in map : e[1] # acc}
C23_FrameStep ==
    /\ \A a \in Accounts : Get(ballots, a) # -1 => Get(ballots', a) # -1
    /\ (VoteStep /\ ev'.result = "Ok")
          => C23_OthersOf(ballots', ev'.sender.acc) = C23_OthersOf(ballots, ev'.sender.acc)
C23_OnlyOwnBallotChanges == [][C23_FrameStep]_vars

C23_Witness ==
    /\ IsVote(ev)
    /\ ev.result = "Ok"
    /\ ev.sender = AccountSender(ACC_1)
    /\ ev.replaced = -1
    /\ Get(ballots, ACC_1) = IndexOf(CC_DK)
    /\ Get(ballots, ACC_0) = IndexOf(CC_DE)


\* C24: once the node has answered, the credential checks come first and in
\* this order, whatever the statement and the proof: no credential at index
\* 0, or one whose id is not the submitted one, fails with Credential, also
\* when that credential is an initial one; NotAllowed is the result exactly
\* when the id matches and the credential is an initial one; and a failed
\* query fails the request with NodeAccess after that one call to the node.
C24_IdMatches(e) == e.answer.has_0 /\ e.answer.cred_id = e.request.credential
C24_CredentialChecksFirst ==
    IsProof(ev) =>
        /\ ~ev.answer.ok =>
              /\ ev.result = "NodeAccess"
              /\ ev.calls = <<"get_account_info">>
        /\ (ev.answer.ok /\ ~C24_IdMatches(ev)) => ev.result = "Credential"
        /\ (ev.answer.ok /\ C24_IdMatches(ev) /\ ev.answer.kind = "Initial")
              => ev.result = "NotAllowed"
        /\ ev.result = "NotAllowed"
              => ev.answer.ok /\ C24_IdMatches(ev) /\ ev.answer.kind = "Initial"
        /\ ev.result = "Credential" => ev.answer.ok /\ ~C24_IdMatches(ev)
        /\ ev.result \in {"NodeAccess", "Credential", "NotAllowed"}
              => ~Called(ev, "verify") /\ ev.signature = NoSignature

C24_Witness ==
    /\ IsProof(ev)
    /\ ev.answer.ok
    /\ ev.answer.has_0
    /\ ev.answer.kind = "Initial"
    /\ ev.answer.cred_id # ev.request.credential
    /\ ~WellShaped(ev.request.statement)
    /\ ev.result = "Credential"


\* C25: init accepts an empty list of options, and in such an election no
\* vote succeeds: a well-formed vote of an account while the election is
\* active fails with InvalidVotingOption, ballots stays empty and the tally
\* view returns is empty.
C25_EmptyOptionsNoVotes ==
    options = <<>> =>
        /\ ballots = {}
        /\ IsVote(ev) =>
              /\ ev.result # "Ok"
              /\ (/\ ev.time <= end_time
                  /\ ev.sender.kind = "Account"
                  /\ WellFormed(ev.parameter)) => ev.result = "InvalidVotingOption"
        /\ IsView(ev) => DOMAIN ev.result.tally = {}

C25_Witness ==
    /\ options = <<>>
    /\ IsVote(ev)
    /\ ev.time <= end_time
    /\ ev.sender = AccountSender(ACC_0)
    /\ ev.parameter.bytes = CC_DK
    /\ ev.parameter.sig = AttestationFor(ACC_0, CC_DK)
    /\ ev.parameter.sig \in attestations
    /\ ev.result = "InvalidVotingOption"
    /\ ballots = {}


\* C26: requests in flight at the same time are independent: the worker of
\* a request answers with what its own body and the node's answer to its
\* own query give, whatever else is in flight; it ends that request only,
\* and a request that fails or is rejected leaves every other request in
\* flight as it was.
ProveStep == IsProof(ev') /\ ev' # ev
IsRequest(e) == e.op = "request"
C26_OthersKept(slot) ==
    \A o \in DOMAIN pending : o # slot => pending'[o] = pending[o]
C26_IndependentStep ==
    /\ ProveStep =>
          LET own == pending[ev'.slot]
              expected == CheckProof(own, ev'.answer, ev'.proof_verifies)
          IN  /\ own # NoRequest
              /\ ev'.request = own
              /\ ev'.result = expected.result
              /\ ev'.signature = expected.signature
              /\ pending'[ev'.slot] = NoRequest
              /\ C26_OthersKept(ev'.slot)
              /\ attestations' = attestations \cup
                    (IF ev'.result = "Ok" THEN {ev'.signature} ELSE {})
    /\ (IsRequest(ev') /\ ev' # ev) =>
          /\ C26_OthersKept(ev'.slot)
          /\ attestations' = attestations
    /\ (IsRejection(ev') /\ ev' # ev) =>
          /\ pending' = pending
          /\ attestations' = attestations
C26_RequestsIndependent == [][C26_IndependentStep]_vars

C26_Witness ==
    /\ IsProof(ev)
    /\ ev.slot = "r1"
    /\ ev.request = ProofRequest(ACC_0, CredentialOf(ACC_0), NotResidentOf(CC_DK))
    /\ ~ev.answer.ok
    /\ ev.result = "NodeAccess"
    /\ pending["r1"] = NoRequest
    /\ pending["r2"] = ProofRequest(ACC_1, CredentialOf(ACC_1), NotResidentOf(CC_DE))
    /\ AttestationFor(ACC_1, CC_DE) \notin attestations


\* C27: as the integration tests call the contract: a vote of an account
\* before the end of the election whose parameter is the serialised name of
\* an option and nothing else (no signature of the verifier) succeeds and is
\* counted when the option is listed, and fails with InvalidVotingOption
\* when it is not.
C27_NameOnly(parameter) ==
    Len(parameter.bytes) = parameter.len /\ parameter.sig = NoSignature
C27_UnsignedVoteAsTested ==
    (/\ IsVote(ev)
     /\ ev.time <= end_time
     /\ ev.sender.kind = "Account"
     /\ C27_NameOnly(ev.parameter))
    => IF Listed(ev.parameter.bytes)
       THEN /\ ev.result = "Ok"
            /\ <<ev.sender.acc, IndexOf(ev.parameter.bytes)>> \in ballots
       ELSE ev.result = "InvalidVotingOption"

====
